---- MODULE Spec2Model ----
(***************************************************************************)
(* The supervision engine of the runner: the orchestrator                  *)
(* (runner.rs: run, execute_commands), the per-command supervision tasks   *)
(* (run_once, run_until_success, run_keep_alive), process execution        *)
(* (run_command.rs), output capture and the crash folders it writes        *)
(* (monitor_stdout.rs, monitor_stderr.rs), the event channel and the       *)
(* dashboard state that folds the events (tui.rs: start_display_loop,      *)
(* TabState).                                                              *)
(*                                                                         *)
(* Time is a global clock `now`; every Utc::now() reads it.  The code of   *)
(* an async function between two await points is one step, so the reads    *)
(* of the clock inside one step return the same value; the clock advances  *)
(* between steps (Tick), in particular while a child is awaited.           *)
(***************************************************************************)
EXTENDS Integers, Sequences, FiniteSets, TLC

\* ---------------------------------------------------------------- bounds
\* ordinary attempts (run_command calls of the command itself) launched in
\* one run, over all commands
MaxAttempts == 3
\* the clock runs from 0 to MaxTime
MaxTime == 2
\* backup strategy: times in 0..MaxTimes, period in 1..MaxPeriod
MaxTimes == 2
MaxPeriod == 2
\* commands in the list of the multi-command specification
NumCmds == 2
\* stdout_history in 1..MaxHistory
MaxHistory == 2
\* lines the children print in one run, over all commands and both streams,
\* and how many of them they print to stderr
MaxLines == 3
MaxErrLines == 2
\* the events waiting in the channel when the fold is followed on its own
MaxEvents == 2
\* the keys the user presses during a run
MaxKeys == 1
\* the length of the period text in the configuration file
MaxLen == 3
\* the lines a pipe holds before a write to it blocks
MaxPipe == 1

\* ------------------------------------------------------------- constants
\* TabState::add_message keeps the last 100 messages
TabCapacity == 100

GiveUpText == "Crash limit reached with no handling strategy, giving up!"

\* ------------------------------------------------------------ data model
CommandMode ==
    {"RunOnce", "RunOnceAndWait", "RunUntilSuccess", "RunUntilSuccessAndWait", "KeepAlive"}

\* Option<BackupStrategy>: some = FALSE is None
NoStrategy == [some |-> FALSE, times |-> 0, period |-> 0, script |-> FALSE, safe_mode |-> FALSE]

BackupStrategy ==
    [some : {TRUE}, times : 0..MaxTimes, period : 1..MaxPeriod,
     script : BOOLEAN, safe_mode : BOOLEAN]

CommandConfig ==
    [mode : CommandMode, backup_strategy : {NoStrategy} \cup BackupStrategy,
     stdout_history : 1..MaxHistory]

\* TuiEvent
TabListChanged(n) == [type |-> "TabListChanged", id |-> n, text |-> ""]
CommandStarted(id) == [type |-> "CommandStarted", id |-> id, text |-> ""]
CommandEnded(id) == [type |-> "CommandEnded", id |-> id, text |-> ""]
NewStdoutMessage(id, text) == [type |-> "NewStdoutMessage", id |-> id, text |-> text]
NewStderrMessage(id, text) == [type |-> "NewStderrMessage", id |-> id, text |-> text]
Input(key) == [type |-> "Input", id |-> 0, text |-> key]
System(id, text) == [type |-> "System", id |-> id, text |-> text]

VARIABLES
    json,       \* the period text of the backup strategy in the configuration file
    commands,   \* config.commands: the command descriptors, in list order
    orch,       \* run / execute_commands: [pc, i, futures, tui_handle]
    task,       \* the supervision task of each command
    alive,      \* per command id: the child processes that are alive
    exited,     \* per command id: the exit status the awaited child left
    pipes,      \* per command id: the stdout and the stderr pipe of its child
    now,        \* the clock
    chan,       \* the event channel (tx -> rx), oldest first
    observed,   \* whether the content of the channel is tracked (see Send)
    closed,     \* whether the receiver of the channel is gone (the display loop ended)
    stdin,      \* the keys the user has pressed and the key loop has not read yet
    tui,        \* TuiState: [tabs, index]
    files,      \* the crash folders under crash_path, with their files
    hist        \* per command id: what has happened so far (observation only)

vars == <<json, commands, orch, task, alive, exited, pipes, now, chan, observed, closed, stdin, tui, files, hist>>

Ids == DOMAIN commands

\* start, process_folder and buffer are the locals of the run_command call
\* the task is in
NewTask ==
    [pc |-> "unspawned", kind |-> "main", crashes |-> <<>>, idx |-> 0,
     crash_count |-> 0, result |-> "none", start |-> 0, buffer |-> <<>>]

\* out, err: the lines the child of the last run_command call printed;
\* ended: how that call ended; folder: its crash folder; outs, errs: the
\* lines printed by all children
NewHist ==
    [attempts |-> 0, successes |-> 0, checks |-> 0, rounds |-> 0,
     scriptDone |-> FALSE, safeDone |-> FALSE, giveups |-> 0,
     out |-> <<>>, err |-> <<>>, ended |-> "none", outs |-> 0, errs |-> 0,
     folder |-> <<>>]

\* run_command.rs:85-88: the child gets a pipe for its stdout and one for
\* its stderr (Redirection::Pipe); out and err are the lines written to the
\* pipe and not yet read
NoPipes == [out |-> 0, err |-> 0]

\* ------------------------------------------------ crash escalation (4.3)
\* runner.rs:118 / 170: timestamp > &(Utc::now() - strategy.period)
InWindow(timestamp, t, period) == timestamp > t - period

\* faulty variant of Exceeds: the threshold test written with >=
ExceedsOrEquals(crash_count, times) == crash_count >= times

\* runner.rs:121 / 173: crash_count > strategy.times
Exceeds(crash_count, times) == crash_count > times

\* The for loop over the ledger in run_until_success, from entry k on with
\* crash_count = c and the clock at t, up to the first entry at which the
\* threshold test succeeds (fire), or to the end of the ledger.
RECURSIVE until_success_scan(_, _, _, _, _)
until_success_scan(crashes, k, c, t, strategy) ==
    IF k > Len(crashes)
    THEN [fire |-> FALSE, idx |-> k, crash_count |-> c]
    ELSE LET c2 == IF InWindow(crashes[k], t, strategy.period) THEN c + 1 ELSE c
         IN  IF Exceeds(c2, strategy.times)
             THEN [fire |-> TRUE, idx |-> k, crash_count |-> c2]
             ELSE until_success_scan(crashes, k + 1, c2, t, strategy)

\* faulty variant of keep_alive_scan: the threshold test of run_keep_alive
\* written with >=
RECURSIVE keep_alive_scan_at_times(_, _, _, _, _)
keep_alive_scan_at_times(crashes, k, c, t, strategy) ==
    IF k > Len(crashes)
    THEN [fire |-> FALSE, idx |-> k, crash_count |-> c]
    ELSE LET c2 == IF InWindow(crashes[k], t, strategy.period) THEN c + 1 ELSE c
         IN  IF c2 >= strategy.times
             THEN [fire |-> TRUE, idx |-> k, crash_count |-> c2]
             ELSE keep_alive_scan_at_times(crashes, k + 1, c2, t, strategy)

\* The same loop in run_keep_alive.
RECURSIVE keep_alive_scan(_, _, _, _, _)
keep_alive_scan(crashes, k, c, t, strategy) ==
    IF k > Len(crashes)
    THEN [fire |-> FALSE, idx |-> k, crash_count |-> c]
    ELSE LET c2 == IF InWindow(crashes[k], t, strategy.period) THEN c + 1 ELSE c
         IN  IF Exceeds(c2, strategy.times)
             THEN [fire |-> TRUE, idx |-> k, crash_count |-> c2]
             ELSE keep_alive_scan(crashes, k + 1, c2, t, strategy)


\* what a supervision function does with the result of the run_command call
\* it awaited: the task's next state, the events it sends, and what happened
Outcome(tk, msgs, ev) == [task |-> tk, msgs |-> msgs, ev |-> ev]

Done(tk, res) == [tk EXCEPT !.pc = "done", !.result = res]

Call(tk, kind) == [tk EXCEPT !.pc = "call", !.kind = kind]

\* faulty variant of until_success_fire: the give-up sends its message and
\* does not return
until_success_fire_no_return(tk, strategy, r, id) ==
    LET tk2 == [tk EXCEPT !.idx = r.idx, !.crash_count = r.crash_count]
    IN  IF ~strategy.script /\ ~strategy.safe_mode
        THEN Outcome(Call(tk2, "main"), <<NewStderrMessage(id, GiveUpText)>>, "giveup")
        ELSE IF strategy.script
             THEN Outcome(Call(tk2, "script"), <<>>, "round")
             ELSE Outcome(Call(tk2, "safe"), <<>>, "round")

\* faulty variant of until_success_fire: the safe-mode relaunch comes first
until_success_fire_safe_first(tk, strategy, r, id) ==
    LET tk2 == [tk EXCEPT !.idx = r.idx, !.crash_count = r.crash_count]
    IN  IF ~strategy.script /\ ~strategy.safe_mode
        THEN Outcome(Done(tk2, "ok"), <<NewStderrMessage(id, GiveUpText)>>, "giveup")
        ELSE IF strategy.safe_mode
             THEN Outcome(Call(tk2, "safe"), <<>>, "round")
             ELSE Outcome(Call(tk2, "script"), <<>>, "round")

\* faulty variant of until_success_fire: the ledger is cleared when the
\* remedy is run
until_success_fire_cleared(tk, strategy, r, id) ==
    LET tk2 == [tk EXCEPT !.idx = 0, !.crash_count = 0, !.crashes = <<>>]
    IN  IF ~strategy.script /\ ~strategy.safe_mode
        THEN Outcome(Done(tk2, "ok"), <<NewStderrMessage(id, GiveUpText)>>, "giveup")
        ELSE IF strategy.script
             THEN Outcome(Call(tk2, "script"), <<>>, "round")
             ELSE Outcome(Call(tk2, "safe"), <<>>, "round")

\* runner.rs:122-148: the threshold test succeeded at entry r.idx
until_success_fire(tk, strategy, r, id) ==
    LET tk2 == [tk EXCEPT !.idx = r.idx, !.crash_count = r.crash_count]
    IN  IF ~strategy.script /\ ~strategy.safe_mode
        THEN Outcome(Done(tk2, "ok"), <<NewStderrMessage(id, GiveUpText)>>, "giveup")
        ELSE IF strategy.script
             THEN Outcome(Call(tk2, "script"), <<>>, "round")
             ELSE Outcome(Call(tk2, "safe"), <<>>, "round")

\* runner.rs:117-150: the for loop from entry k on, then the next iteration of
\* the while loop (the next attempt)
until_success_loop(tk, strategy, k, c, t, id) ==
    LET r == until_success_scan(tk.crashes, k, c, t, strategy)
    IN  IF r.fire
        THEN until_success_fire(tk, strategy, r, id)
        ELSE Outcome(Call([tk EXCEPT !.idx = r.idx, !.crash_count = r.crash_count], "main"),
                     <<>>, "none")

\* faulty variant of until_success_on_ok: the loop goes on after a success
until_success_on_ok_retry(tk) == Outcome(Call(tk, "main"), <<>>, "success")

\* runner.rs:113, 153: `while let Err(_)` ends on Ok and the task returns Ok(())
until_success_on_ok(tk) == Outcome(Done(tk, "ok"), <<>>, "success")

\* faulty variant of run_until_success: a failed attempt ends the task
run_until_success_stops(tk, strategy, res, t, id) ==
    IF res = "ok"
    THEN until_success_on_ok(tk)
    ELSE Outcome(Done([tk EXCEPT !.crashes = Append(@, t)], "err"), <<>>, "none")

\* runner.rs:106-154
run_until_success(tk, strategy, res, t, id) ==
    CASE tk.kind = "main" ->
           IF res = "ok"
           THEN until_success_on_ok(tk)
           ELSE LET tk2 == [tk EXCEPT !.crashes = Append(@, t)]
                IN  IF strategy.some
                    THEN until_success_loop(tk2, strategy, 1, 0, t, id)
                    ELSE Outcome(Call(tk2, "main"), <<>>, "none")
      [] tk.kind = "script" ->
           IF res = "err"
           THEN Outcome(Done(tk, "err"), <<>>, "none")
           ELSE IF strategy.safe_mode
                THEN Outcome(Call(tk, "safe"), <<>>, "none")
                ELSE until_success_loop(tk, strategy, tk.idx + 1, tk.crash_count, t, id)
      [] tk.kind = "safe" ->
           IF res = "err"
           THEN Outcome(Done(tk, "err"), <<>>, "none")
           ELSE until_success_loop(tk, strategy, tk.idx + 1, tk.crash_count, t, id)

\* faulty variant of keep_alive_fire: the entries checked so far are dropped
\* from the ledger when the remedy is run
keep_alive_fire_pruned(tk, strategy, r, id) ==
    LET tk2 == [tk EXCEPT !.idx = 0, !.crash_count = 0,
                          !.crashes = SubSeq(@, r.idx + 1, Len(@))]
    IN  IF ~strategy.script /\ ~strategy.safe_mode
        THEN Outcome(Done(tk2, "ok"), <<NewStderrMessage(id, GiveUpText)>>, "giveup")
        ELSE IF strategy.script
             THEN Outcome(Call(tk2, "script"), <<>>, "round")
             ELSE Outcome(Call(tk2, "safe"), <<>>, "round")

\* runner.rs:174-200
keep_alive_fire(tk, strategy, r, id) ==
    LET tk2 == [tk EXCEPT !.idx = r.idx, !.crash_count = r.crash_count]
    IN  IF ~strategy.script /\ ~strategy.safe_mode
        THEN Outcome(Done(tk2, "ok"), <<NewStderrMessage(id, GiveUpText)>>, "giveup")
        ELSE IF strategy.script
             THEN Outcome(Call(tk2, "script"), <<>>, "round")
             ELSE Outcome(Call(tk2, "safe"), <<>>, "round")

\* runner.rs:169-202
keep_alive_loop(tk, strategy, k, c, t, id) ==
    LET r == keep_alive_scan(tk.crashes, k, c, t, strategy)
    IN  IF r.fire
        THEN keep_alive_fire(tk, strategy, r, id)
        ELSE Outcome(Call([tk EXCEPT !.idx = r.idx, !.crash_count = r.crash_count], "main"),
                     <<>>, "none")

\* faulty variant of keep_alive_on_ok: a success ends the task
keep_alive_on_ok_return(tk) == Outcome(Done(tk, "ok"), <<>>, "success")

\* runner.rs:164-165, 204-205: on Ok the `if let Err(_)` is skipped and the
\* loop calls run_command again
keep_alive_on_ok(tk) == Outcome(Call(tk, "main"), <<>>, "success")

\* runner.rs:157-206
run_keep_alive(tk, strategy, res, t, id) ==
    CASE tk.kind = "main" ->
           IF res = "ok"
           THEN keep_alive_on_ok(tk)
           ELSE LET tk2 == [tk EXCEPT !.crashes = Append(@, t)]
                IN  IF strategy.some
                    THEN keep_alive_loop(tk2, strategy, 1, 0, t, id)
                    ELSE Outcome(Call(tk2, "main"), <<>>, "none")
      [] tk.kind = "script" ->
           IF res = "err"
           THEN Outcome(Done(tk, "err"), <<>>, "none")
           ELSE IF strategy.safe_mode
                THEN Outcome(Call(tk, "safe"), <<>>, "none")
                ELSE keep_alive_loop(tk, strategy, tk.idx + 1, tk.crash_count, t, id)
      [] tk.kind = "safe" ->
           IF res = "err"
           THEN Outcome(Done(tk, "err"), <<>>, "none")
           ELSE keep_alive_loop(tk, strategy, tk.idx + 1, tk.crash_count, t, id)

\* faulty variant of run_once: a failed attempt is repeated
run_once_retry(tk, res) ==
    IF res = "ok"
    THEN Outcome(Done(tk, res), <<>>, "success")
    ELSE Outcome(Call(tk, "main"), <<>>, "none")

\* runner.rs:96-103
run_once(tk, res) ==
    Outcome(Done(tk, res), <<>>, IF res = "ok" THEN "success" ELSE "none")

\* the supervision function execute_commands picks for a mode (runner.rs:62-87)
Supervise(cfg, tk, res, t, id) ==
    CASE cfg.mode \in {"RunOnce", "RunOnceAndWait"} -> run_once(tk, res)
      [] cfg.mode \in {"RunUntilSuccess", "RunUntilSuccessAndWait"} ->
           run_until_success(tk, cfg.backup_strategy, res, t, id)
      [] cfg.mode = "KeepAlive" -> run_keep_alive(tk, cfg.backup_strategy, res, t, id)

\* the observations of command id after a run_command call of kind `kind`
\* returned res and the supervision function answered with outcome o
Observe(h, cfg, kind, res, o) ==
    LET failed == kind = "main" /\ res = "err" /\ cfg.backup_strategy.some
                  /\ cfg.mode \notin {"RunOnce", "RunOnceAndWait"}
        h1 == IF failed
              THEN [h EXCEPT !.checks = @ + 1, !.rounds = 0, !.scriptDone = FALSE,
                             !.safeDone = FALSE]
              ELSE h
        h2 == CASE kind = "script" -> [h1 EXCEPT !.scriptDone = TRUE]
                 [] kind = "safe" -> [h1 EXCEPT !.safeDone = TRUE]
                 [] OTHER -> h1
        h3 == IF o.ev \in {"round", "giveup"}
              THEN [h2 EXCEPT !.rounds = @ + 1, !.scriptDone = FALSE, !.safeDone = FALSE]
              ELSE h2
        h4 == IF o.ev = "giveup" THEN [h3 EXCEPT !.giveups = @ + 1] ELSE h3
    IN  IF o.ev = "success" /\ kind = "main" THEN [h4 EXCEPT !.successes = @ + 1] ELSE h4


\* --------------------------------------------------------- output capture
\* what the child prints is its own business: its n-th line on a stream
\* names the attempt, the kind of run and n
Line(stream, h, kind, n) ==
    stream \o " " \o ToString(h.attempts) \o " " \o kind \o " " \o ToString(n)

\* faulty variant of with_capacity: the buffer of the previous launch is kept
with_capacity_kept(previous) == previous

\* run_command.rs:56: a new, empty buffer for every launch
with_capacity(previous) == <<>>

\* faulty variant of push: a full buffer drops the new entry
push_drop_newest(buffer, capacity, entry) ==
    IF Len(buffer) >= capacity THEN buffer ELSE Append(buffer, entry)

\* monitor_stdout.rs:29, 37: CircularQueue::push - in a full buffer the new
\* entry replaces the oldest one
push(buffer, capacity, entry) ==
    LET pushed == Append(buffer, entry)
    IN  IF Len(pushed) > capacity THEN Tail(pushed) ELSE pushed

\* a file of a crash folder: it exists or not, and holds lines
NoFile == [exists |-> FALSE, lines |-> <<>>]

NewFolder == [stdout |-> NoFile, stderr |-> NoFile]

\* command_config.rs:86-87, runner.rs:133, 144: the name of the descriptor
\* that is run - the script's path for a script run, the command's name for
\* an attempt and for a safe-mode relaunch
Name(id, kind) ==
    IF kind = "script" THEN "script" \o ToString(id) ELSE "command" \o ToString(id)

\* run_command.rs:38-43: crash_path/name-start, start formatted to the second
process_folder(id, kind, start) == <<Name(id, kind), start>>

\* std::fs::create_dir_all: the folder is created unless it exists
create_dir_all(fs, folder) ==
    IF folder \in DOMAIN fs
    THEN fs
    ELSE [k \in DOMAIN fs \cup {folder} |-> IF k = folder THEN NewFolder ELSE fs[k]]

\* faulty variant of append_to_file: the file is opened with truncate
append_to_file_truncated(fs, folder, line) ==
    LET made == create_dir_all(fs, folder)
    IN  [made EXCEPT ![folder].stderr = [exists |-> TRUE, lines |-> <<line>>]]

\* faulty variant of append_to_file: nothing is written
append_to_file_skipped(fs, folder, line) == fs

\* monitor_stderr.rs:50-60: create(true).append(true)
append_to_file(fs, folder, line) ==
    LET made == create_dir_all(fs, folder)
    IN  [made EXCEPT ![folder].stderr = [exists |-> TRUE, lines |-> Append(@.lines, line)]]

\* monitor_stdout.rs:55-64: OpenOptions create(true).write(true), without
\* truncate: the lines are written from the start of the file and what the
\* file held beyond them stays
write_from_start(old, lines) == lines \o SubSeq(old, Len(lines) + 1, Len(old))

\* monitor_stdout.rs:50-65
save_to_file(fs, buffer, folder) ==
    IF buffer = <<>>
    THEN fs
    ELSE LET made == create_dir_all(fs, folder)
         IN  [made EXCEPT ![folder].stdout =
                [exists |-> TRUE, lines |-> write_from_start(@.lines, buffer)]]

\* ------------------------------------------------------ process execution
\* tx.try_send on the unbounded channel of runner.rs:37: the events are
\* appended in order.  No producer ever reads the channel and a send never
\* waits, so the specifications that do not look at the dashboard leave the
\* content of the channel out (observed = FALSE).
Send(q, events) == IF observed THEN q \o events ELSE q

\* runner.rs:122-126, 172-176: the give-up message is sent with
\* `try_send(...).map_err(ChannelError)?`; when the receiver is gone the
\* supervision function returns the error of the send
Sent(o) == IF closed /\ o.msgs # <<>> THEN [o EXCEPT !.task = Done(o.task, "err")] ELSE o

RECURSIVE SumAttempts(_, _)
SumAttempts(h, n) == IF n = 0 THEN 0 ELSE h[n].attempts + SumAttempts(h, n - 1)

\* the run stays within its bound of ordinary attempts
MayLaunch(kind) == kind # "main" \/ SumAttempts(hist, Len(commands)) < MaxAttempts

\* faulty variant of Running: the channel is a rendezvous, a producer goes on
\* once the display loop has taken what was sent
RunningDrained == orch.pc # "failed" /\ chan = <<>>

\* main.rs:43-45: when runner::run returns an error, main returns and the
\* process, with every supervision task, ends; detached children live on
Running == orch.pc # "failed"

\* faulty variant of WaitResolved: run_command does not wait for the child
WaitSkipped(id) == TRUE

\* run_command.rs:71: process.wait() returns once the child has exited
WaitResolved(id) == exited[id] # "none"

\* run_command.rs:73: exit_status != ExitStatus::Exited(0)
ExitResult(status) == IF status = "zero" THEN "ok" ELSE "err"

\* faulty variant of Return: the tasks push their failures on one ledger
\* that all of them share
ReturnShared(id, res, sent) ==
    LET o == Sent(Supervise(commands[id], task[id], res, now, id))
    IN  /\ task' = [j \in Ids |->
                      IF j = id THEN o.task ELSE [task[j] EXCEPT !.crashes = o.task.crashes]]
        /\ chan' = IF closed THEN chan ELSE Send(chan, sent \o o.msgs)
        /\ hist' = [hist EXCEPT ![id] =
                      [Observe(@, commands[id], task[id].kind, res, o)
                         EXCEPT !.ended = IF closed THEN "send" ELSE exited[id]]]

\* the task of command id goes on after its run_command call returned res,
\* having sent the events in sent
Return(id, res, sent) ==
    LET o == Sent(Supervise(commands[id], task[id], res, now, id))
    IN  /\ task' = [task EXCEPT ![id] = o.task]
        /\ chan' = IF closed THEN chan ELSE Send(chan, sent \o o.msgs)
        /\ hist' = [hist EXCEPT ![id] =
                      [Observe(@, commands[id], task[id].kind, res, o)
                         EXCEPT !.ended = IF closed THEN "send" ELSE exited[id]]]

CountStart(h, kind) ==
    [h EXCEPT !.attempts = IF kind = "main" THEN @ + 1 ELSE @,
              !.out = <<>>, !.err = <<>>, !.ended = "none"]

RECURSIVE SumOuts(_, _)
SumOuts(h, n) == IF n = 0 THEN 0 ELSE h[n].outs + SumOuts(h, n - 1)

RECURSIVE SumErrs(_, _)
SumErrs(h, n) == IF n = 0 THEN 0 ELSE h[n].errs + SumErrs(h, n - 1)

\* the crash folder of the run_command call the task of command id is in
Folder(id) == process_folder(id, task[id].kind, task[id].start)

\* faulty variant of ChildRuns: run_command does not await the capture
\* routines, which go on reading what the child has left in its pipes
ChildRunsOrHasRun(id) == alive[id] > 0 \/ exited[id] # "none"

\* run_command.rs:57-69: the capture routines read the pipes of the child
\* run_command is waiting for, until the child closes them; both are awaited
\* before the wait for the exit status
ChildRuns(id) == task[id].pc = "wait" /\ alive[id] > 0 /\ exited[id] = "none"

\* run_command.rs:36-67: CommandStarted is sent and the child is spawned;
\* run_command then awaits the capture of its output
RunCommandSpawn(id) ==
    /\ Running
    /\ task[id].pc = "call"
    /\ MayLaunch(task[id].kind)
    /\ ~closed
    /\ task' = [task EXCEPT ![id].pc = "wait", ![id].start = now,
                             ![id].buffer = with_capacity(@)]
    /\ chan' = Send(chan, <<CommandStarted(id)>>)
    /\ alive' = [alive EXCEPT ![id] = @ + 1]
    /\ exited' = [exited EXCEPT ![id] = "none"]
    /\ pipes' = [pipes EXCEPT ![id] = NoPipes]
    /\ hist' = [hist EXCEPT ![id] =
                  [CountStart(@, task[id].kind)
                     EXCEPT !.folder = process_folder(id, task[id].kind, now)]]
    /\ UNCHANGED <<json, commands, orch, now, tui, files, observed, closed, stdin>>

\* faulty variant of ProcessError: the error of the spawn is dropped
ProcessErrorDropped == "ok"

\* run_command.rs:37, 81-94: `run(...)?` hands the error of Popen::create
\* to the supervision function as the result of run_command
ProcessError == "err"

\* run_command.rs:36-37: CommandStarted is sent, Popen::create fails and
\* run_command returns the error
RunCommandSpawnFails(id) ==
    /\ Running
    /\ task[id].pc = "call"
    /\ MayLaunch(task[id].kind)
    /\ ~closed
    /\ LET o == Supervise(commands[id], task[id], ProcessError, now, id)
       IN  /\ task' = [task EXCEPT ![id] = o.task]
           /\ chan' = Send(chan, <<CommandStarted(id)>> \o o.msgs)
           /\ hist' = [hist EXCEPT ![id] =
                         [Observe(CountStart(@, task[id].kind), commands[id],
                                  task[id].kind, ProcessError, o)
                            EXCEPT !.ended = "spawn"]]
    /\ UNCHANGED <<pipes, json, commands, orch, alive, exited, now, tui, files, observed, closed, stdin>>

\* run_command.rs:36: the receiver is gone, `try_send(CommandStarted)
\* .map_err(ChannelError)?` returns the error before anything is spawned
RunCommandSendFails(id) ==
    /\ Running
    /\ task[id].pc = "call"
    /\ MayLaunch(task[id].kind)
    /\ closed
    /\ LET o == Sent(Supervise(commands[id], task[id], "err", now, id))
       IN  /\ task' = [task EXCEPT ![id] = o.task]
           /\ hist' = [hist EXCEPT ![id] =
                         [Observe(CountStart(@, task[id].kind), commands[id],
                                  task[id].kind, "err", o)
                            EXCEPT !.ended = "send"]]
    /\ UNCHANGED <<pipes, json, commands, orch, alive, exited, now, chan, tui, files, observed, closed, stdin>>

\* run_command.rs:36-50, 59-62: CommandStarted is sent and the child is
\* spawned, detached; the handle of its stderr or of its stdout pipe is
\* missing and `ok_or(...)?` returns the error at once.  Nothing waits for
\* the child, which lives on
RunCommandPipeFails(id) ==
    /\ Running
    /\ task[id].pc = "call"
    /\ MayLaunch(task[id].kind)
    /\ ~closed
    /\ alive' = [alive EXCEPT ![id] = @ + 1]
    /\ LET o == Supervise(commands[id], task[id], "err", now, id)
       IN  /\ task' = [task EXCEPT ![id] = [o.task EXCEPT !.start = now]]
           /\ chan' = Send(chan, <<CommandStarted(id)>> \o o.msgs)
           /\ hist' = [hist EXCEPT ![id] =
                         [Observe(CountStart(@, task[id].kind), commands[id],
                                  task[id].kind, "err", o)
                            EXCEPT !.ended = "pipe"]]
    /\ UNCHANGED <<pipes, json, commands, orch, exited, now, tui, files, observed, closed, stdin>>

\* the child of command id exits with a status of its choosing; the exit
\* closes its ends of the pipes
ChildExit(id, status) ==
    /\ alive[id] > 0
    /\ exited[id] = "none"
    /\ alive' = [alive EXCEPT ![id] = @ - 1]
    /\ exited' = [exited EXCEPT ![id] = status]
    /\ UNCHANGED <<pipes, json, commands, orch, task, now, chan, tui, files, hist, observed, closed, stdin>>

RECURSIVE SumPipes(_, _)
SumPipes(p, n) == IF n = 0 THEN 0 ELSE p[n].out + p[n].err + SumPipes(p, n - 1)

\* the lines the children have printed so far, read or still in a pipe
Printed ==
    SumOuts(hist, Len(commands)) + SumErrs(hist, Len(commands)) + SumPipes(pipes, Len(commands))

\* the child of command id prints a line on a stream and nobody is reading
\* it at that moment: the line waits in the pipe.  A write to a full pipe
\* blocks
ChildWrite(id, stream) ==
    /\ ChildRuns(id)
    /\ Printed < MaxLines
    /\ pipes[id][stream] < MaxPipe
    /\ pipes' = [pipes EXCEPT ![id][stream] = @ + 1]
    /\ UNCHANGED <<json, commands, orch, task, alive, exited, now, chan, tui, files, hist, observed, closed, stdin>>

\* faulty variant of StderrTask: the stderr capture is started when the
\* stdout capture has returned
StderrTaskAfterStdout(id) ==
    task[id].pc = "wait" /\ exited[id] # "none" /\ pipes[id].out = 0

\* run_command.rs:45-54: the stderr capture is spawned as a task of its own
\* before the stdout capture is entered (monitor_stderr.rs:26, "runs another
\* thread"): it reads from the spawn of the child on, side by side with the
\* stdout capture, until run_command has joined it
StderrTask(id) == task[id].pc = "wait"

\* run_command.rs:57-67, monitor_stdout.rs:32-47: monitor_stdout reads a line
\* of the child's stdout - the oldest that waits in the pipe, or the one the
\* child prints at that moment - pushes it into the buffer and sends
\* NewStdoutMessage
MonitorStdout(id) ==
    /\ Running
    /\ IF pipes[id].out > 0
       THEN task[id].pc = "wait" /\ pipes' = [pipes EXCEPT ![id].out = @ - 1]
       ELSE ChildRuns(id) /\ Printed < MaxLines /\ pipes' = pipes
    /\ LET line == Line("out", hist[id], task[id].kind, Len(hist[id].out) + 1)
           entry == [time |-> now, text |-> line]
       IN  /\ task' = [task EXCEPT ![id].buffer =
                         push(@, commands[id].stdout_history, entry)]
           /\ chan' = Send(chan, <<NewStdoutMessage(id, line)>>)
           /\ hist' = [hist EXCEPT ![id].out = Append(@, entry), ![id].outs = @ + 1]
    /\ UNCHANGED <<json, commands, orch, alive, exited, now, tui, files, observed, closed, stdin>>

\* run_command.rs:45-54, monitor_stderr.rs:27-47: monitor_stderr reads a line
\* of the child's stderr - the oldest that waits in the pipe, or the one the
\* child prints at that moment - appends it to stderr.txt and sends
\* NewStderrMessage
MonitorStderr(id) ==
    /\ Running
    /\ StderrTask(id)
    /\ IF pipes[id].err > 0
       THEN pipes' = [pipes EXCEPT ![id].err = @ - 1]
       ELSE /\ ChildRuns(id)
            /\ SumErrs(hist, Len(commands)) < MaxErrLines
            /\ Printed < MaxLines
            /\ pipes' = pipes
    /\ LET line == Line("err", hist[id], task[id].kind, Len(hist[id].err) + 1)
           entry == [time |-> now, text |-> line]
       IN  /\ files' = append_to_file(files, Folder(id), entry)
           /\ chan' = Send(chan, <<NewStderrMessage(id, line)>>)
           /\ hist' = [hist EXCEPT ![id].err = Append(@, entry), ![id].errs = @ + 1]
    /\ UNCHANGED <<json, commands, orch, task, alive, exited, now, tui, observed, closed, stdin>>

\* run_command.rs:57-69: monitor_stdout has returned and the stderr task
\* has been joined: both pipes have been read to their end
Captured(id) == pipes[id].out = 0 /\ pipes[id].err = 0

\* run_command.rs:69-77: the capture is over, the wait resolves,
\* CommandEnded is sent, after a
\* non-zero exit the buffer is saved, and run_command returns Ok or the exit
\* error to the supervision function.  When the receiver is gone the `?`
\* on the send of CommandEnded (run_command.rs:72) returns the error of the
\* send, whatever the exit status, before anything is saved
RunCommandWait(id) ==
    /\ Running
    /\ task[id].pc = "wait"
    /\ Captured(id)
    /\ WaitResolved(id)
    /\ files' = IF ExitResult(exited[id]) = "err" /\ ~closed
                THEN save_to_file(files, task[id].buffer, Folder(id))
                ELSE files
    /\ Return(id, IF closed THEN "err" ELSE ExitResult(exited[id]), <<CommandEnded(id)>>)
    /\ UNCHANGED <<pipes, json, commands, orch, alive, exited, now, tui, observed, closed, stdin>>

\* the clock advances while a child runs
Tick ==
    /\ now < MaxTime
    /\ \E id \in Ids : alive[id] > 0
    /\ now' = now + 1
    /\ UNCHANGED <<pipes, json, commands, orch, task, alive, exited, chan, tui, files, hist, observed, closed, stdin>>

\* ------------------------------------------------------------ configuration
\* A text is the sequence of its characters; the texts here are ASCII, so
\* the length in bytes is the length of the sequence.
Digits == {"0", "1", "2", "5"}

Units == {"s", "m", "h", "d", "w"}

Chars == Digits \cup Units \cup {"-", "+", "x"}

digit(c) == CASE c = "0" -> 0 [] c = "1" -> 1 [] c = "2" -> 2 [] c = "5" -> 5

RECURSIVE from_digits(_)
from_digits(text) ==
    IF text = <<>>
    THEN 0
    ELSE from_digits(SubSeq(text, 1, Len(text) - 1)) * 10 + digit(text[Len(text)])

\* command_config.rs:235-249: str::parse::<i64> accepts an optional sign
\* followed by at least one digit (the values here are far from the ends of
\* i64)
parse_i64(text) ==
    LET signed == text # <<>> /\ text[1] \in {"-", "+"}
        digits == IF signed THEN Tail(text) ELSE text
    IN  IF digits = <<>> \/ \E i \in DOMAIN digits : digits[i] \notin Digits
        THEN [ok |-> FALSE, value |-> 0]
        ELSE [ok |-> TRUE,
              value |-> IF signed /\ text[1] = "-"
                        THEN 0 - from_digits(digits)
                        ELSE from_digits(digits)]

\* command_config.rs:251-261: chrono::Duration::seconds, minutes, hours,
\* days and weeks; a duration is held in seconds
Duration(number, unit) ==
    number * (CASE unit = "s" -> 1
                [] unit = "m" -> 60
                [] unit = "h" -> 60 * 60
                [] unit = "d" -> 24 * 60 * 60
                [] unit = "w" -> 7 * 24 * 60 * 60)

BadCommandConfig == [kind |-> "err", period |-> 0]

Panic == [kind |-> "panic", period |-> 0]

Ok(period) == [kind |-> "ok", period |-> period]

\* command_config.rs:217-267.  `period.len() - 1` is computed on usize: for
\* the empty text a build with overflow checks (the debug profile) panics,
\* a build without them (the release profile) wraps to usize::MAX, where
\* `get(..usize::MAX)` is None and the function returns BadCommandConfig.
\* The set holds the outcome of each build.
parse_backup_strategy_period(period) ==
    IF Len(period) = 0
    THEN {Panic, BadCommandConfig}
    ELSE LET number == parse_i64(SubSeq(period, 1, Len(period) - 1))
             unit == period[Len(period)]
         IN  IF ~number.ok
             THEN {BadCommandConfig}
             ELSE IF unit \in Units
                  THEN {Ok(Duration(number.value, unit))}
                  ELSE {BadCommandConfig}

\* runner.rs:35, config.rs:45-56, command_config.rs:184-198: the
\* configuration is loaded and the period of every backup strategy is
\* parsed.  An error is returned by run and printed by main (main.rs:43-45);
\* a panic ends the process
ConfigCreate ==
    /\ orch.pc = "config"
    /\ \E r \in (IF \E id \in Ids : commands[id].backup_strategy.some
                 THEN parse_backup_strategy_period(json)
                 ELSE {Ok(0)}) :
          /\ orch' = [orch EXCEPT !.pc = CASE r.kind = "ok" -> "start"
                                           [] r.kind = "err" -> "failed"
                                           [] r.kind = "panic" -> "panicked"]
          /\ commands' = IF r.kind = "ok"
                         THEN [id \in Ids |->
                                 IF commands[id].backup_strategy.some
                                 THEN [commands[id] EXCEPT !.backup_strategy.period = r.period]
                                 ELSE commands[id]]
                         ELSE commands
    /\ UNCHANGED <<pipes, json, task, alive, exited, now, chan, tui, files, hist, observed, closed, stdin>>

\* ------------------------------------------------------------ orchestrator
\* faulty variant of WaitMode: every mode is spawned as a task of its own
WaitModeNever(mode) == FALSE

\* runner.rs:69, 78: the modes execute_commands awaits inline
WaitMode(mode) == mode \in {"RunOnceAndWait", "RunUntilSuccessAndWait"}

\* faulty variant of tab_list: the list lacks the last command
tab_list_short(cmds) == TabListChanged(Len(cmds) - 1)

\* runner.rs:40-46: the event with the names of all commands, in list order
tab_list(cmds) == TabListChanged(Len(cmds))

\* runner.rs:37-52: the channel is created, the dashboard task is spawned,
\* TabListChanged is sent and execute_commands is entered; when the
\* dashboard task has died already the `?` on the send returns the error
RunStart ==
    /\ orch.pc = "start"
    /\ chan' = IF closed THEN chan ELSE Send(chan, <<tab_list(commands)>>)
    /\ orch' = IF closed
               THEN [orch EXCEPT !.pc = "failed", !.tui_handle = TRUE]
               ELSE [orch EXCEPT !.pc = "loop", !.i = 1, !.tui_handle = TRUE]
    /\ UNCHANGED <<pipes, json, commands, task, alive, exited, now, tui, files, hist, observed, closed, stdin>>

\* runner.rs:37-49: the channel is created, the dashboard task is spawned,
\* TabListChanged is sent, and create_dir_all(crash_path) fails: `?` returns
\* the error
RunCrashPathFails ==
    /\ orch.pc = "start"
    /\ ~closed
    /\ chan' = Send(chan, <<tab_list(commands)>>)
    /\ orch' = [orch EXCEPT !.pc = "failed", !.tui_handle = TRUE]
    /\ UNCHANGED <<pipes, json, commands, task, alive, exited, now, tui, files, hist, observed, closed, stdin>>

\* runner.rs:63-68, 72-77, 81-86: a concurrent mode is spawned as a task of
\* its own and the loop goes on
ExecuteCommandsSpawn ==
    /\ orch.pc = "loop"
    /\ orch.i <= Len(commands)
    /\ ~WaitMode(commands[orch.i].mode)
    /\ task' = [task EXCEPT ![orch.i].pc = "call"]
    /\ orch' = [orch EXCEPT !.i = @ + 1, !.futures = @ \cup {orch.i}]
    /\ UNCHANGED <<pipes, json, commands, alive, exited, now, chan, tui, files, hist, observed, closed, stdin>>

\* runner.rs:69-71, 78-80: a wait mode is run inline and awaited
ExecuteCommandsCall ==
    /\ orch.pc = "loop"
    /\ orch.i <= Len(commands)
    /\ WaitMode(commands[orch.i].mode)
    /\ task' = [task EXCEPT ![orch.i].pc = "call"]
    /\ orch' = [orch EXCEPT !.pc = "await"]
    /\ UNCHANGED <<pipes, json, commands, alive, exited, now, chan, tui, files, hist, observed, closed, stdin>>

\* runner.rs:70, 79: `.await?` - the awaited supervision function returned
ExecuteCommandsAwaited ==
    /\ orch.pc = "await"
    /\ task[orch.i].pc = "done"
    /\ orch' = IF task[orch.i].result = "err"
               THEN [orch EXCEPT !.pc = "failed"]
               ELSE [orch EXCEPT !.pc = "loop", !.i = @ + 1]
    /\ UNCHANGED <<pipes, json, commands, task, alive, exited, now, chan, tui, files, hist, observed, closed, stdin>>

\* runner.rs:89-92, 52-54: join_all resolves when every spawned task has
\* finished; an error of any of them is returned by run
ExecuteCommandsJoin ==
    /\ orch.pc = "loop"
    /\ orch.i > Len(commands)
    /\ \A j \in orch.futures : task[j].pc = "done"
    /\ orch' = IF \E j \in orch.futures : task[j].result = "err"
               THEN [orch EXCEPT !.pc = "failed"]
               ELSE [orch EXCEPT !.pc = "joined"]
    /\ UNCHANGED <<pipes, json, commands, task, alive, exited, now, chan, tui, files, hist, observed, closed, stdin>>

\* ------------------------------------------------------------- dashboard
\* Tabs are numbered from 1 here (tabs[0] of the code is tabs[1]); the
\* selected index keeps the values of the code, 0 .. tabs.len() - 1.

\* faulty variant of add_message: a full tab refuses the new entry
add_message_keep_oldest(content, severity, text) ==
    IF Len(content) >= TabCapacity
    THEN content
    ELSE Append(content, [severity |-> severity, text |-> text])

\* tui.rs:138-143
add_message(content, severity, text) ==
    LET pushed == Append(content, [severity |-> severity, text |-> text])
    IN  IF Len(pushed) > TabCapacity THEN Tail(pushed) ELSE pushed

\* faulty variant of severity: the lines of stderr are shown as Info
severity_all_info(type) == IF type = "NewStdoutMessage" \/ type = "NewStderrMessage"
                           THEN "Info" ELSE "System"

\* tui.rs:250-270: the severity the fold gives the entry of an event
severity(type) ==
    CASE type = "NewStdoutMessage" -> "Info"
      [] type = "NewStderrMessage" -> "Error"
      [] OTHER -> "System"

\* tui.rs:252, 262, 256-259, 269: the text of the entry of an event
message(event) ==
    CASE event.type = "CommandStarted" -> "Command Started"
      [] event.type = "CommandEnded" -> "Command ended"
      [] OTHER -> event.text

\* Key::Left, Key::Right and any other key (tui.rs:263-267)
Keys == {"Left", "Right", "Other"}

\* tui.rs:224-230: the key loop, spawned by the dashboard task (tui.rs:154,
\* runner.rs:38), reads the next key and sends it as an Input event;
\* `expect` ends the loop when the receiver is gone
KeyMonitoringLoop ==
    /\ orch.pc # "start"
    /\ stdin # <<>>
    /\ stdin' = Tail(stdin)
    /\ chan' = IF closed THEN chan ELSE Send(chan, <<Input(Head(stdin))>>)
    /\ UNCHANGED <<pipes, json, commands, orch, task, alive, exited, now, tui, files, hist, observed, closed>>

\* faulty variant of next: the tabs are built anew when the selection moves
next_rebuilt(st) ==
    [tabs |-> [j \in 1..Len(st.tabs) |-> [title |-> j, content |-> <<>>]],
     index |-> (st.index + 1) % Len(st.tabs)]

\* tui.rs:105-107
next(st) == [st EXCEPT !.index = (st.index + 1) % Len(st.tabs)]

\* tui.rs:110-116
previous(st) ==
    IF st.index > 0
    THEN [st EXCEPT !.index = st.index - 1]
    ELSE [st EXCEPT !.index = Len(st.tabs) - 1]

MessageTypes ==
    {"CommandStarted", "NewStdoutMessage", "NewStderrMessage", "CommandEnded", "System"}

\* tui.rs:243-271: the fold of one event into the state
Fold(st, event) ==
    CASE event.type = "TabListChanged" ->
           [st EXCEPT !.tabs = [j \in 1..event.id |-> [title |-> j, content |-> <<>>]]]
      [] event.type \in MessageTypes ->
           [st EXCEPT !.tabs[event.id].content =
                        add_message(@, severity(event.type), message(event))]
      [] event.type = "Input" ->
           CASE event.text = "Right" -> next(st)
             [] event.text = "Left" -> previous(st)
             [] OTHER -> st

\* the fold panics: tabs[idx] of a tab that does not exist (tui.rs:251-269),
\* the remainder by tabs.len() = 0 in next (tui.rs:106), tabs.len() - 1 with
\* no tab in previous (tui.rs:114; a build without overflow checks wraps the
\* index instead and the redraw that follows panics on tabs[index])
FoldPanics(st, event) ==
    \/ event.type \in MessageTypes /\ event.id \notin 1..Len(st.tabs)
    \/ event.type = "Input" /\ event.text \in {"Left", "Right"} /\ st.tabs = <<>>

\* tui.rs:193: draw_screen reads tabs[index] and panics when there is no such tab
DrawPanics(st) == st.index \notin 0..(Len(st.tabs) - 1)

\* tui.rs:147-151, 220: an `unwrap` on the terminal fails (stdout is not a
\* terminal, a draw cannot be written): the dashboard task panics and
\* drops the receiver
TuiPanics ==
    /\ ~closed
    /\ closed' = TRUE
    /\ UNCHANGED <<pipes, json, commands, orch, task, alive, exited, now, chan, tui, files, hist, observed, stdin>>

\* tui.rs:239-278: the display loop receives the oldest event, folds it and
\* redraws the screen.  A panic ends the loop: the receiver is dropped and
\* the state is gone with it
DisplayLoop ==
    /\ ~closed
    /\ chan # <<>>
    /\ chan' = Tail(chan)
    /\ IF FoldPanics(tui, Head(chan))
       THEN closed' = TRUE /\ tui' = tui
       ELSE /\ tui' = Fold(tui, Head(chan))
            /\ closed' = DrawPanics(Fold(tui, Head(chan)))
    /\ UNCHANGED <<pipes, json, commands, orch, task, alive, exited, now, files, hist, observed, stdin>>

\* -------------------------------------------------------- specifications
Started ==
    /\ orch = [pc |-> "start", i |-> 0, futures |-> {}, tui_handle |-> FALSE]
    /\ task = [id \in Ids |-> NewTask]
    /\ alive = [id \in Ids |-> 0]
    /\ exited = [id \in Ids |-> "none"]
    /\ chan = <<>>
    /\ closed = FALSE
    /\ stdin = <<>>
    /\ json = <<>>
    /\ tui = [tabs |-> <<>>, index |-> 0]
    /\ pipes = [id \in Ids |-> NoPipes]
    /\ files = [folder \in {} |-> NewFolder]
    /\ hist = [id \in Ids |-> NewHist]

InitState ==
    /\ now = 0
    /\ observed = FALSE
    /\ Started

\* one command, with any descriptor
Init ==
    /\ commands \in [1..1 -> {c \in CommandConfig : c.stdout_history = MaxHistory}]
    /\ InitState

Processes ==
    \/ RunStart
    \/ ExecuteCommandsSpawn
    \/ ExecuteCommandsCall
    \/ ExecuteCommandsAwaited
    \/ ExecuteCommandsJoin
    \/ \E id \in Ids : RunCommandSpawn(id)
    \/ \E id \in Ids : RunCommandSpawnFails(id)
    \/ \E id \in Ids, status \in {"zero", "nonzero"} : ChildExit(id, status)
    \/ \E id \in Ids : RunCommandWait(id)

Supervision == Processes \/ Tick

Next == Supervision

Spec == Init /\ [][Next]_vars

\* a list of NumCmds commands, each of any mode, with no backup strategy or
\* with one that the second failure exceeds and that has both remedies.  The
\* clock stands still (the attempts end faster than it ticks): this
\* specification explores the interleavings of the tasks, Spec the passing
\* of time
MultiStrategy ==
    {NoStrategy,
     [some |-> TRUE, times |-> 1, period |-> 1, script |-> TRUE, safe_mode |-> TRUE]}

InitMulti ==
    /\ commands \in [1..NumCmds -> [mode : CommandMode, backup_strategy : MultiStrategy,
                                     stdout_history : {MaxHistory}]]
    /\ now = 0
    /\ observed = FALSE
    /\ Started

SpecMulti == InitMulti /\ [][Processes]_vars

\* one command that has no remedy (no backup strategy, or one with neither
\* script nor safe-mode args), with the channel and the dashboard observed
DashStrategy ==
    {NoStrategy} \cup
    [some : {TRUE}, times : 0..MaxTimes, period : 1..MaxPeriod,
     script : {FALSE}, safe_mode : {FALSE}]

InitDash ==
    /\ commands \in [1..1 -> [mode : CommandMode, backup_strategy : DashStrategy,
                               stdout_history : {MaxHistory}]]
    /\ now = 0
    /\ observed = TRUE
    /\ Started

NextDash == Supervision \/ DisplayLoop

SpecDash == InitDash /\ [][NextDash]_vars

\* one command, with any descriptor, on a platform that may hand out a child
\* without one of its pipe handles
NextFault == Supervision \/ \E id \in Ids : RunCommandPipeFails(id)

SpecFault == Init /\ [][NextFault]_vars

\* one command of any mode and any stdout_history whose children print: it
\* has no backup strategy, or one that the second failure exceeds and that
\* relaunches the command in safe mode.  The clock stands still: every
\* launch of the run falls into the same second
OutStrategy ==
    {NoStrategy,
     [some |-> TRUE, times |-> 1, period |-> 1, script |-> FALSE, safe_mode |-> TRUE]}

InitOut ==
    /\ commands \in [1..1 -> [mode : CommandMode, backup_strategy : OutStrategy,
                               stdout_history : 1..MaxHistory]]
    /\ now = 0
    /\ observed = FALSE
    /\ Started

Output ==
    \/ \E id \in Ids : MonitorStdout(id)
    \/ \E id \in Ids : MonitorStderr(id)

NextOut == Processes \/ Output

SpecOut == InitOut /\ [][NextOut]_vars

\* a list of NumCmds commands with children that print, the channel and the
\* dashboard observed: the last command is run once or kept alive and has no
\* backup strategy or one that gives it up at its first failure, the
\* commands before it are run once, inline.  The clock stands still
TabsStrategy ==
    {NoStrategy,
     [some |-> TRUE, times |-> 0, period |-> 1, script |-> FALSE, safe_mode |-> FALSE]}

InitTabs ==
    /\ commands \in [1..NumCmds -> [mode : {"RunOnce", "RunOnceAndWait", "KeepAlive"},
                                     backup_strategy : TabsStrategy,
                                     stdout_history : {MaxHistory}]]
    /\ \A id \in Ids :
          id < NumCmds =>
            (commands[id].mode = "RunOnceAndWait" /\ commands[id].backup_strategy = NoStrategy)
    /\ now = 0
    /\ observed = TRUE
    /\ Started

NextTabs == Processes \/ Output \/ DisplayLoop

SpecTabs == InitTabs /\ [][NextTabs]_vars


\* One retried command that is given up after the first or after more than
\* MaxTimes failures, with the channel and the dashboard observed, and a
\* user who presses keys while the command is supervised.  The clock stands
\* still, so one period stands for all.
InitKeys ==
    /\ commands \in [1..1 -> {c \in CommandConfig :
                                /\ c.mode \in {"RunUntilSuccessAndWait", "KeepAlive"}
                                /\ c.backup_strategy \in DashStrategy
                                /\ c.backup_strategy.some
                                /\ c.backup_strategy.period = MaxPeriod
                                /\ c.backup_strategy.times \in {0, MaxTimes}
                                /\ c.stdout_history = MaxHistory}]
    /\ now = 0
    /\ observed = TRUE
    /\ orch = [pc |-> "start", i |-> 0, futures |-> {}, tui_handle |-> FALSE]
    /\ task = [id \in Ids |-> NewTask]
    /\ alive = [id \in Ids |-> 0]
    /\ exited = [id \in Ids |-> "none"]
    /\ chan = <<>>
    /\ closed = FALSE
    /\ stdin \in UNION {[1..n -> Keys] : n \in 0..MaxKeys}
    /\ json = <<>>
    /\ tui = [tabs |-> <<>>, index |-> 0]
    /\ pipes = [id \in Ids |-> NoPipes]
    /\ files = [folder \in {} |-> NewFolder]
    /\ hist = [id \in Ids |-> NewHist]

NextKeys == Processes \/ DisplayLoop \/ KeyMonitoringLoop

SpecKeys == InitKeys /\ [][NextKeys]_vars

\* One command with any descriptor; the dashboard task may die and leave
\* the channel without a receiver.
NextSend == Supervision \/ TuiPanics \/ \E id \in Ids : RunCommandSendFails(id)

SpecSend == Init /\ [][NextSend]_vars

\* The parsing of the period on its own: any text of at most MaxLen
\* characters as the period of the backup strategy of one command.
Texts(n) == UNION {[1..k -> Chars] : k \in 0..n}

Loading ==
    /\ now = 0
    /\ observed = FALSE
    /\ orch = [pc |-> "config", i |-> 0, futures |-> {}, tui_handle |-> FALSE]
    /\ task = [id \in Ids |-> NewTask]
    /\ alive = [id \in Ids |-> 0]
    /\ exited = [id \in Ids |-> "none"]
    /\ chan = <<>>
    /\ closed = FALSE
    /\ stdin = <<>>
    /\ tui = [tabs |-> <<>>, index |-> 0]
    /\ pipes = [id \in Ids |-> NoPipes]
    /\ files = [folder \in {} |-> NewFolder]
    /\ hist = [id \in Ids |-> NewHist]

InitPeriod ==
    /\ commands \in [1..1 -> {c \in CommandConfig :
                                /\ c.mode = "KeepAlive"
                                /\ c.backup_strategy.some
                                /\ c.backup_strategy.times = MaxTimes
                                /\ c.backup_strategy.period = 1
                                /\ c.backup_strategy.script
                                /\ c.backup_strategy.safe_mode
                                /\ c.stdout_history = MaxHistory}]
    /\ json \in Texts(MaxLen)
    /\ Loading

NextPeriod == ConfigCreate

SpecPeriod == InitPeriod /\ [][NextPeriod]_vars

\* The whole run from the loading of the configuration on: one command
\* with any descriptor, a period of one or two seconds or a text that is
\* no period, and a crash path that may not be creatable.
InitStartup ==
    /\ commands \in [1..1 -> {c \in CommandConfig :
                                /\ c.backup_strategy.period <= 1
                                /\ c.stdout_history = MaxHistory}]
    /\ json \in [1..2 -> {"1", "2", "s", "x"}]
    /\ Loading

NextStartup == ConfigCreate \/ RunCrashPathFails \/ Supervision

SpecStartup == InitStartup /\ [][NextStartup]_vars

\* The fold of the dashboard on its own: the commands have been running for
\* a while, every tab shows the last TabCapacity entries of what its command
\* has printed so far (or the tab list has not been folded yet), no key has
\* been folded yet, and the events still in the channel are folded one by
\* one.  The supervision variables play no part here.
\* what command j has shown after m events: Command Started, then its lines
Shown(j, m) ==
    LET all == [i \in 1..m |->
                 IF i = 1
                 THEN [severity |-> "System", text |-> "Command Started"]
                 ELSE [severity |-> "Info", text |-> ToString(j) \o "." \o ToString(i)]]
    IN  IF m > TabCapacity THEN SubSeq(all, m - TabCapacity + 1, m) ELSE all

FoldEvents ==
    {Input(key) : key \in Keys} \cup {tab_list(commands)}
      \cup {CommandStarted(id) : id \in Ids} \cup {CommandEnded(id) : id \in Ids}
      \cup {NewStdoutMessage(id, "out") : id \in Ids}
      \cup {NewStderrMessage(id, "err") : id \in Ids}
      \cup {System(id, "sys") : id \in Ids}

\* runner.rs:38-52: TabListChanged is the first event the runner sends and
\* it is sent once; only the keys of the user can be folded before it
InOrder(listed, q) ==
    \A i \in DOMAIN q :
       LET before == \E k \in 1..(i - 1) : q[k].type = "TabListChanged"
       IN  /\ q[i].type \in MessageTypes => listed \/ before
           /\ q[i].type = "TabListChanged" => ~listed /\ ~before

\* how many events each command has shown: one less than a full tab, one
\* more than a full tab (a tab that is still empty is the one TabListChanged
\* has just built)
Fills == {TabCapacity - 1, TabCapacity + 1}

InitFold ==
    /\ commands = [id \in 1..NumCmds |->
                     [mode |-> "KeepAlive", backup_strategy |-> NoStrategy,
                      stdout_history |-> MaxHistory]]
    /\ now = 0
    /\ observed = TRUE
    /\ closed = FALSE
    /\ stdin = <<>>
    /\ json = <<>>
    /\ orch = [pc |-> "loop", i |-> NumCmds + 1, futures |-> 1..NumCmds, tui_handle |-> TRUE]
    /\ task = [id \in Ids |-> NewTask]
    /\ alive = [id \in Ids |-> 0]
    /\ exited = [id \in Ids |-> "none"]
    /\ files = [folder \in {} |-> NewFolder]
    /\ hist = [id \in Ids |-> NewHist]
    /\ pipes = [id \in Ids |-> NoPipes]
    /\ \E listed \in BOOLEAN, fill \in [1..NumCmds -> Fills] :
          /\ tui = [tabs |-> IF listed
                             THEN [j \in 1..NumCmds |->
                                     [title |-> j, content |-> Shown(j, fill[j])]]
                             ELSE <<>>,
                    index |-> 0]
          /\ ~listed => \A j \in 1..NumCmds : fill[j] = TabCapacity - 1
          /\ \E n \in 1..MaxEvents :
                /\ chan \in [1..n -> FoldEvents]
                /\ InOrder(listed, chan)

NextFold == DisplayLoop

SpecFold == InitFold /\ [][NextFold]_vars

\* A list of NumCmds retried commands that are supervised side by side,
\* each with no backup strategy or with the one of MultiStrategy.  The clock
\* stands still.
InitPair ==
    /\ commands \in [1..NumCmds ->
                       [mode : {"RunUntilSuccess", "RunUntilSuccessAndWait", "KeepAlive"},
                        backup_strategy : MultiStrategy,
                        stdout_history : {MaxHistory}]]
    /\ now = 0
    /\ observed = FALSE
    /\ Started

NextPair == Processes

SpecPair == InitPair /\ [][NextPair]_vars

\* The dashboard from the start of the run on: a command list that is empty
\* (config.rs accepts an empty `commands` array) or holds one command that
\* is run once, the channel and the dashboard observed, and a user who
\* presses keys.  The clock stands still.
InitDraw ==
    /\ commands \in UNION {[1..n -> [mode : {"RunOnce", "RunOnceAndWait"},
                                     backup_strategy : {NoStrategy},
                                     stdout_history : {MaxHistory}]] : n \in 0..1}
    /\ now = 0
    /\ observed = TRUE
    /\ orch = [pc |-> "start", i |-> 0, futures |-> {}, tui_handle |-> FALSE]
    /\ task = [id \in Ids |-> NewTask]
    /\ alive = [id \in Ids |-> 0]
    /\ exited = [id \in Ids |-> "none"]
    /\ chan = <<>>
    /\ closed = FALSE
    /\ stdin \in UNION {[1..n -> Keys] : n \in 0..(MaxKeys + 1)}
    /\ json = <<>>
    /\ tui = [tabs |-> <<>>, index |-> 0]
    /\ pipes = [id \in Ids |-> NoPipes]
    /\ files = [folder \in {} |-> NewFolder]
    /\ hist = [id \in Ids |-> NewHist]

NextDraw == Processes \/ DisplayLoop \/ KeyMonitoringLoop

SpecDraw == InitDraw /\ [][NextDraw]_vars

\* One command, run once or kept alive without a backup strategy, whose
\* children print faster than their output is read: lines wait in the
\* pipes, and a full pipe blocks the child.  The capture routines keep
\* reading: monitor_stdout is a loop on the thread of the run_command call,
\* monitor_stderr a task the executor runs on one of its worker threads
\* (weak fairness of both; the executor is taken to have a worker to run the
\* task on).  The clock stands still.
InitPipe ==
    /\ commands \in [1..1 -> [mode : {"RunOnce", "RunOnceAndWait", "KeepAlive"},
                               backup_strategy : {NoStrategy},
                               stdout_history : {MaxHistory}]]
    /\ now = 0
    /\ observed = FALSE
    /\ Started

NextPipe == Processes \/ Output \/ \E id \in Ids, stream \in {"out", "err"} : ChildWrite(id, stream)

SpecPipe ==
    /\ InitPipe
    /\ [][NextPipe]_vars
    /\ WF_vars(MonitorStdout(1))
    /\ WF_vars(MonitorStderr(1))

\* ------------------------------------------------------------------ claims
UntilSuccess(id) == commands[id].mode \in {"RunUntilSuccess", "RunUntilSuccessAndWait"}

KeepAlive(id) == commands[id].mode = "KeepAlive"

Strategy(id) == commands[id].backup_strategy

HasRemedy(id) == Strategy(id).some /\ (Strategy(id).script \/ Strategy(id).safe_mode)

\* the command is supervised by a loop that keeps a crash ledger
Retrying(id) == UntilSuccess(id) \/ KeepAlive(id)

\* C1: in run_until_success (RunUntilSuccess, RunUntilSuccessAndWait) the
\* first attempt that returns Success ends the task: from then on the task
\* is finished and never moves again - no attempt and no remedy run is
\* started, no child is alive, the ledger gets no entry.
C1_SuccessEndsUntilSuccess ==
    [][\A id \in Ids :
         (UntilSuccess(id) /\ hist[id].successes > 0) =>
           /\ task[id].pc = "done"
           /\ task[id].result = "ok"
           /\ alive[id] = 0
           /\ task'[id] = task[id]
           /\ hist'[id] = hist[id]
           /\ alive'[id] = alive[id]]_vars

\* a RunUntilSuccess task that succeeded after a failure and its check
C1_Witness ==
    \E id \in Ids :
        /\ UntilSuccess(id)
        /\ hist[id].successes = 1
        /\ hist[id].checks >= 1
        /\ Len(task[id].crashes) >= 1
        /\ task[id].pc = "done"

\* C2: a Success of a KeepAlive attempt does not end the task: the step in
\* which the attempt returns Success leaves the task at the call of
\* run_command for another attempt of the command itself, appends nothing to
\* the ledger and starts no escalation (no check, no remedy round, no give-up).
C2_KeepAliveSuccessLoops ==
    [][\A id \in Ids :
         (KeepAlive(id) /\ hist'[id].successes # hist[id].successes) =>
           /\ task'[id].pc = "call"
           /\ task'[id].kind = "main"
           /\ task'[id].crashes = task[id].crashes
           /\ hist'[id].checks = hist[id].checks
           /\ hist'[id].rounds = hist[id].rounds
           /\ hist'[id].giveups = hist[id].giveups]_vars

\* a KeepAlive command whose first attempt succeeded and whose second
\* attempt is running
C2_Witness ==
    \E id \in Ids :
        /\ KeepAlive(id)
        /\ hist[id].successes = 1
        /\ hist[id].attempts = 2
        /\ task[id].crashes = <<>>
        /\ task[id].pc = "wait"
        /\ alive[id] = 1

\* C3 (as claimed): the task of a KeepAlive command with a remedy never
\* terminates, whatever its attempts and its remedy runs return.
C3_KeepAliveNeverEnds ==
    \A id \in Ids : (KeepAlive(id) /\ HasRemedy(id)) => task[id].pc # "done"

WindowCount(crashes, t, period) ==
    Cardinality({k \in 1..Len(crashes) : crashes[k] > t - period})

Last(seq) == seq[Len(seq)]

\* C5: after a failed attempt of a command with a backup strategy the
\* escalation action (a remedy round, or the give-up) happens if and only if
\* the number of ledger entries inside the window strictly exceeds times;
\* in particular nothing happens while the ledger has at most times entries,
\* and when the (times+1)-th failure makes the count exceed times (times = 2:
\* the third failure) the action happens exactly once.
C5_EscalationIffExceeds ==
    \A id \in Ids :
        (Retrying(id) /\ Strategy(id).some /\ hist[id].checks >= 1) =>
          LET crashes == task[id].crashes
              n == WindowCount(crashes, Last(crashes), Strategy(id).period)
          IN  /\ hist[id].rounds >= 1 <=> n > Strategy(id).times
              /\ Len(crashes) <= Strategy(id).times => hist[id].rounds = 0
              /\ (Len(crashes) = Strategy(id).times + 1 /\ n > Strategy(id).times)
                    => hist[id].rounds = 1

\* times = 2, three failures inside one period: the action happened once
C5_Witness ==
    \E id \in Ids :
        /\ Retrying(id)
        /\ Strategy(id).some
        /\ Strategy(id).times = 2
        /\ Len(task[id].crashes) = 3
        /\ WindowCount(task[id].crashes, Last(task[id].crashes), Strategy(id).period) = 3
        /\ hist[id].checks = 3
        /\ hist[id].rounds = 1


\* C6 (as claimed): the count compared against times in the check that
\* follows the crash at tn is the number of the examined ledger entries ti
\* with ti > tn - P, at every comparison of the check.
C6_CountIsWindowCount ==
    \A id \in Ids :
        (Retrying(id) /\ Strategy(id).some /\ hist[id].checks >= 1) =>
          LET crashes == task[id].crashes
              tn == Last(crashes)
              examined == IF task[id].idx > Len(crashes) THEN Len(crashes) ELSE task[id].idx
          IN  task[id].crash_count =
                Cardinality({k \in 1..examined : crashes[k] > tn - Strategy(id).period})

\* C7 (as claimed): within one escalation check the remedy runs once (the
\* script at most once, the safe-mode relaunch at most once).
C7_OneRemedyPerCheck == \A id \in Ids : hist[id].rounds <= 1

\* the give-up messages of command id in the channel and in its tab
GiveUpInChan(id) ==
    Cardinality({k \in 1..Len(chan) :
                   /\ chan[k].type = "NewStderrMessage"
                   /\ chan[k].id = id
                   /\ chan[k].text = GiveUpText})

GiveUpInTab(id) ==
    IF id \in DOMAIN tui.tabs
    THEN Cardinality({k \in 1..Len(tui.tabs[id].content) :
                        tui.tabs[id].content[k].text = GiveUpText})
    ELSE 0

\* C8: once a command has been given up its task is finished and never
\* moves again (no attempt is started, no child is alive), in the
\* until-success modes and in KeepAlive alike, and exactly one give-up
\* message has been sent for it.
C8_GiveUpIsFinal ==
    /\ [](\A id \in Ids :
            /\ hist[id].giveups <= 1
            /\ GiveUpInChan(id) + GiveUpInTab(id) = hist[id].giveups
            /\ hist[id].giveups = 1 => (task[id].pc = "done" /\ alive[id] = 0))
    /\ [][\A id \in Ids :
            hist[id].giveups = 1 =>
              /\ task'[id] = task[id]
              /\ hist'[id] = hist[id]
              /\ alive'[id] = alive[id]]_vars

\* a KeepAlive command was given up, and its message has reached its tab
C8_Witness ==
    \E id \in Ids :
        /\ KeepAlive(id)
        /\ hist[id].giveups = 1
        /\ Strategy(id).times >= 1
        /\ GiveUpInTab(id) = 1
        /\ task[id].pc = "done"

\* C9 (as claimed): the give-up message is appended to the tab with
\* severity System.
C9_GiveUpIsSystem ==
    \A id \in DOMAIN tui.tabs :
        \A k \in 1..Len(tui.tabs[id].content) :
            tui.tabs[id].content[k].text = GiveUpText =>
              tui.tabs[id].content[k].severity = "System"

\* C10: with a script and safe-mode args both configured, the safe-mode
\* relaunch is called only after the script run of that round has returned
\* (and so has exited), and the next ordinary attempt is called only after
\* the script run and the safe-mode run of the last round have returned; no
\* child of the command is alive at either call.
C10_ScriptThenSafeThenAttempt ==
    \A id \in Ids :
        (Retrying(id) /\ Strategy(id).some /\ Strategy(id).script /\ Strategy(id).safe_mode) =>
          /\ (task[id].kind = "safe" /\ task[id].pc \in {"call", "wait"}) =>
               (hist[id].scriptDone /\ ~hist[id].safeDone)
          /\ (task[id].kind = "main" /\ task[id].pc \in {"call", "wait"}
                /\ hist[id].rounds >= 1) =>
               (hist[id].scriptDone /\ hist[id].safeDone)
          /\ task[id].pc = "call" => alive[id] = 0

\* the next attempt is alive after the script run and then the safe-mode run
\* of a round have returned
C10_Witness ==
    \E id \in Ids :
        /\ Strategy(id).some /\ Strategy(id).script /\ Strategy(id).safe_mode
        /\ task[id].kind = "main"
        /\ task[id].pc = "wait"
        /\ alive[id] = 1
        /\ hist[id].rounds >= 1
        /\ hist[id].scriptDone
        /\ hist[id].safeDone

\* the command is run inline by the orchestrator
Waits(id) == commands[id].mode \in {"RunOnceAndWait", "RunUntilSuccessAndWait"}

\* C11: a command that comes after a wait-mode command in the list is not
\* started (its task does not exist, it has launched nothing) before the
\* supervision of the wait-mode command has finished; a task that is at a
\* run_command call can launch whatever the orchestrator is waiting for, so
\* a wait-mode command does not block the concurrent commands before it.
C11_WaitModeBlocksLater ==
    /\ \A i \in Ids, j \in Ids :
          (i < j /\ Waits(i) /\ task[i].pc # "done") =>
            /\ task[j].pc = "unspawned"
            /\ hist[j].attempts = 0
            /\ alive[j] = 0
    /\ \A i \in Ids :
          (Running /\ task[i].pc = "call" /\ MayLaunch(task[i].kind)) =>
            ENABLED RunCommandSpawn(i)

\* the child of a concurrent command is alive together with the child of a
\* wait-mode command that comes after it
C11_Witness ==
    \E i \in Ids, j \in Ids :
        /\ i < j
        /\ ~Waits(i)
        /\ Waits(j)
        /\ orch.pc = "await"
        /\ alive[i] = 1
        /\ alive[j] = 1

\* C12 (as claimed): the orchestrator's run does not end with an error
\* because an attempt or a remedy run exited non-zero: when it has ended with
\* an error, the task that returned the error did so for something else
\* (its child could not be spawned).
C12_NonZeroExitKeepsRunning ==
    orch.pc = "failed" =>
      \E id \in Ids :
          /\ task[id].pc = "done"
          /\ task[id].result = "err"
          /\ hist[id].ended = "spawn"

\* C13 (as claimed): when the orchestrator's run has returned, with success
\* or with an error, every non-KeepAlive task it spawned has finished.
C13_ReturnAfterEveryTask ==
    orch.pc \in {"joined", "failed"} =>
      \A j \in orch.futures : ~KeepAlive(j) => task[j].pc = "done"

RunsOnce(id) == commands[id].mode \in {"RunOnce", "RunOnceAndWait"}

\* C15: a RunOnce or RunOnceAndWait command is run once: at most one
\* run_command call (one CommandStarted) is made for its id, that call runs
\* the command itself, and when it has returned the task is finished,
\* whatever the exit status; with or without a backup strategy there is no
\* ledger entry, no escalation check, no remedy run and no give-up.
C15_RunOnceRunsOnce ==
    /\ [](\A id \in Ids :
            RunsOnce(id) =>
              /\ hist[id].attempts <= 1
              /\ task[id].kind = "main"
              /\ task[id].crashes = <<>>
              /\ hist[id].checks = 0
              /\ hist[id].rounds = 0
              /\ hist[id].giveups = 0
              /\ hist[id].attempts = 1 => task[id].pc \in {"wait", "done"}
              /\ task[id].pc = "done" => (hist[id].attempts = 1 /\ alive[id] = 0))
    /\ [][\A id \in Ids :
            (RunsOnce(id) /\ task[id].pc = "done") =>
              /\ task'[id] = task[id]
              /\ hist'[id] = hist[id]
              /\ alive'[id] = alive[id]]_vars

\* a RunOnce command with a backup strategy that its first failure exceeds
\* and that has a remedy: its attempt exited non-zero and the task is over
C15_Witness ==
    \E id \in Ids :
        /\ RunsOnce(id)
        /\ Strategy(id).some
        /\ Strategy(id).times = 0
        /\ Strategy(id).script
        /\ hist[id].attempts = 1
        /\ hist[id].ended = "nonzero"
        /\ task[id].pc = "done"
        /\ task[id].result = "err"

\* the last n elements of seq
LastN(seq, n) == IF Len(seq) > n THEN SubSeq(seq, Len(seq) - n + 1, Len(seq)) ELSE seq

\* the run_command call of command id that was made last spawned a child,
\* which has exited, and the call has returned
Ended(id) == hist[id].ended \in {"zero", "nonzero"}

\* C16 (as claimed): after an attempt that exited with status 0 its crash
\* folder does not exist (the first attempt of a command: no earlier launch
\* has used the folder).
C16_NoArtifactAfterZero ==
    \A id \in Ids :
        (hist[id].attempts = 1 /\ hist[id].ended = "zero") =>
          hist[id].folder \notin DOMAIN files

\* C16 (amended): an attempt that exits with status 0 writes no stdout.txt:
\* the step in which it returns leaves every crash folder as it is; its
\* crash folder and stderr.txt exist exactly when the child printed a line
\* to its stderr, and stderr.txt then holds those lines (the first attempt
\* of a command: no earlier launch has used the folder).
C16_StderrOnlyAfterZero ==
    /\ [](\A id \in Ids :
            (hist[id].attempts = 1 /\ hist[id].ended = "zero") =>
              /\ hist[id].folder \in DOMAIN files <=> hist[id].err # <<>>
              /\ hist[id].folder \in DOMAIN files =>
                    /\ ~files[hist[id].folder].stdout.exists
                    /\ files[hist[id].folder].stderr =
                         [exists |-> TRUE, lines |-> hist[id].err])
    /\ [][\A id \in Ids :
            (hist[id].ended = "none" /\ hist'[id].ended = "zero") => files' = files]_vars

\* the first attempt printed on its stdout and on its stderr and exited
\* with status 0: the folder holds stderr.txt only
C16_Witness ==
    \E id \in Ids :
        /\ hist[id].attempts = 1
        /\ hist[id].ended = "zero"
        /\ hist[id].out # <<>>
        /\ hist[id].err # <<>>
        /\ hist[id].folder \in DOMAIN files

C19_BufferIsLastLines ==
    \A id \in Ids :
        (task[id].pc = "wait" \/ Ended(id)) =>
          /\ Len(task[id].buffer) <= commands[id].stdout_history
          /\ task[id].buffer = LastN(hist[id].out, commands[id].stdout_history)

\* the second launch of a command whose first launch filled its buffer has
\* filled its own buffer and pushed one more line
C19_Witness ==
    \E id \in Ids :
        /\ hist[id].attempts = 2
        /\ task[id].pc = "wait"
        /\ hist[id].outs > Len(hist[id].out)
        /\ Len(hist[id].out) = commands[id].stdout_history + 1
        /\ Len(task[id].buffer) = commands[id].stdout_history

\* C20 (as claimed): after an attempt that exited non-zero with a non-empty
\* stdout buffer, stdout.txt in its crash folder holds the buffer and
\* nothing else: the flush has replaced what the file held.
C20_FlushReplacesContent ==
    \A id \in Ids :
        (hist[id].ended = "nonzero" /\ hist[id].out # <<>>) =>
          /\ hist[id].folder \in DOMAIN files
          /\ files[hist[id].folder].stdout = [exists |-> TRUE, lines |-> task[id].buffer]

\* C17 (as claimed): run_command does not return while the child it spawned
\* is alive: a child of a command is alive only while the task of the
\* command is inside a run_command call, waiting for it.
C17_NoReturnWhileChildAlive ==
    \A id \in Ids : alive[id] > 0 => task[id].pc = "wait"

\* C14: TabListChanged is enqueued before anything is launched and nothing
\* precedes it in the channel; every other event in the channel addresses a
\* command of the list and has TabListChanged before it, in the channel or
\* folded already, so the event the display loop folds next addresses a tab
\* that exists.
C14_TabListFirst ==
    /\ orch.pc = "start" =>
          /\ chan = <<>>
          /\ \A id \in Ids : task[id].pc = "unspawned" /\ alive[id] = 0
    /\ \A k \in 1..Len(chan) :
          IF chan[k].type = "TabListChanged"
          THEN k = 1 /\ tui.tabs = <<>> /\ chan[k].id = Len(commands)
          ELSE /\ chan[k].id \in Ids
               /\ chan[1].type = "TabListChanged" \/ Len(tui.tabs) = Len(commands)
    /\ (chan # <<>> /\ Head(chan).type # "TabListChanged") =>
          Head(chan).id \in DOMAIN tui.tabs
    /\ tui.tabs # <<>> => Len(tui.tabs) = Len(commands)

\* the tab of the last command holds the start of the command and a line of
\* its stdout, and more events of the command wait in the channel
C14_Witness ==
    \E id \in Ids :
        /\ id = Len(commands)
        /\ id > 1
        /\ id \in DOMAIN tui.tabs
        /\ Len(tui.tabs[id].content) >= 2
        /\ tui.tabs[id].content[1].severity = "System"
        /\ tui.tabs[id].content[2].severity = "Info"
        /\ chan # <<>>
        /\ Head(chan).id = id

\* the display loop folds event into the state in this step
Folds(event) == ~closed /\ chan # <<>> /\ Head(chan) = event /\ chan' = Tail(chan)

\* C21: a tab never holds more than 100 entries, and folding a message into
\* a tab that holds 100 removes exactly the oldest entry: the 99 newer ones
\* stay, in order, in front of the new entry.
C21_TabIsBounded ==
    /\ [](\A j \in DOMAIN tui.tabs : Len(tui.tabs[j].content) <= TabCapacity)
    /\ [][\A event \in FoldEvents :
            (/\ Folds(event)
             /\ event.type \in MessageTypes
             /\ event.id \in DOMAIN tui.tabs
             /\ Len(tui.tabs[event.id].content) = TabCapacity)
            => /\ Len(tui'.tabs[event.id].content) = TabCapacity
               /\ SubSeq(tui'.tabs[event.id].content, 1, TabCapacity - 1)
                    = Tail(tui.tabs[event.id].content)]_vars

\* a full tab whose two newest entries were folded in and whose oldest
\* entry (Command Started) has been evicted
C21_Witness ==
    \E j \in DOMAIN tui.tabs :
       LET content == tui.tabs[j].content
       IN  /\ Len(content) = TabCapacity
           /\ content[TabCapacity].text = "err"
           /\ content[TabCapacity - 1].text = "out"
           /\ content[1].text = ToString(j) \o ".2"

\* C22: folding CommandStarted, NewStdoutMessage, NewStderrMessage,
\* CommandEnded or System for command id appends exactly one entry to the
\* tab of id, with severity System, Info, Error, System and System, and
\* leaves every other tab, and the titles, as they were.
C22_FoldAppendsToOneTab ==
    [][\A event \in FoldEvents :
         (Folds(event) /\ event.type \in MessageTypes /\ event.id \in DOMAIN tui.tabs)
         => LET old == tui.tabs[event.id].content
                new == tui'.tabs[event.id].content
            IN  /\ DOMAIN tui'.tabs = DOMAIN tui.tabs
                /\ \A k \in DOMAIN tui.tabs : k # event.id => tui'.tabs[k] = tui.tabs[k]
                /\ tui'.tabs[event.id].title = tui.tabs[event.id].title
                /\ new # <<>>
                /\ SubSeq(new, 1, Len(new) - 1)
                     = IF Len(old) = TabCapacity THEN Tail(old) ELSE old
                /\ new[Len(new)].severity =
                     CASE event.type = "CommandStarted" -> "System"
                       [] event.type = "NewStdoutMessage" -> "Info"
                       [] event.type = "NewStderrMessage" -> "Error"
                       [] event.type = "CommandEnded" -> "System"
                       [] event.type = "System" -> "System"]_vars

\* a line of stderr has been folded into one tab as an Error entry while
\* another tab shows what it showed before
C22_Witness ==
    /\ chan = <<>>
    /\ \E j, k \in DOMAIN tui.tabs :
          /\ j # k
          /\ Len(tui.tabs[j].content) = TabCapacity
          /\ tui.tabs[j].content[TabCapacity] = [severity |-> "Error", text |-> "err"]
          /\ tui.tabs[k].content = Shown(k, TabCapacity - 1)

\* C23: folding an Input event leaves the titles and the content of the
\* tabs as they were (only the selected index may change), a key other than
\* Left and Right changes nothing, and folding a message event leaves the
\* selected index as it was.
C23_InputMovesOnlyIndex ==
    [][\A event \in FoldEvents :
         Folds(event)
         => /\ event.type = "Input" => tui'.tabs = tui.tabs
            /\ event.type = "Input" /\ event.text \notin {"Left", "Right"} => tui' = tui
            /\ event.type \in MessageTypes => tui'.index = tui.index]_vars

\* keys have moved the selection away from the first tab, and the tabs
\* still show their content
C23_Witness ==
    /\ chan = <<>>
    /\ ~closed
    /\ tui.index > 0
    /\ \A j \in DOMAIN tui.tabs : Len(tui.tabs[j].content) >= TabCapacity - 1

\* a step of the consumer side: the display loop takes an event or the key
\* loop reads a key
ConsumerStep == (chan # <<>> /\ chan' = Tail(chan)) \/ stdin' # stdin

C25_FailedSendEndsTask ==
    \A id \in Ids :
       Retrying(id) /\ hist[id].ended = "send"
       => task[id].pc = "done" /\ task[id].result = "err"

\* C26: under RunUntilSuccess and KeepAlive an attempt whose child cannot be
\* spawned is a failed attempt like a non-zero exit: it appends one
\* timestamp (the time of the failure) to the crash ledger, the escalation
\* check runs on it (a remedy round or the give-up happens iff more than
\* times entries are inside the window), and unless the command is given up
\* the task goes on to its next launch.
C26_SpawnFailureIsFailedAttempt ==
    [][\A id \in Ids :
         (/\ Retrying(id)
          /\ task[id].pc = "call"
          /\ task[id].kind = "main"
          /\ hist'[id].attempts = hist[id].attempts + 1
          /\ hist'[id].ended = "spawn")
         => LET crashes == task'[id].crashes
                n == WindowCount(crashes, now, Strategy(id).period)
                given_up == hist'[id].giveups = hist[id].giveups + 1
            IN  /\ crashes = Append(task[id].crashes, now)
                /\ Strategy(id).some =>
                     /\ hist'[id].checks = hist[id].checks + 1
                     /\ hist'[id].rounds >= 1 <=> n > Strategy(id).times
                /\ ~Strategy(id).some => task'[id].kind = "main" /\ ~given_up
                /\ given_up => ~HasRemedy(id) /\ task'[id].pc = "done"
                /\ ~given_up => task'[id].pc = "call"]_vars

\* the second attempt in a row could not be spawned, the ledger holds both
\* failures and the remedy is about to be launched
C26_Witness ==
    \E id \in Ids :
        /\ Retrying(id)
        /\ HasRemedy(id)
        /\ hist[id].ended = "spawn"
        /\ hist[id].attempts = 2
        /\ Len(task[id].crashes) = 2
        /\ hist[id].rounds >= 1
        /\ task[id].pc = "call"
        /\ task[id].kind # "main"

\* C27: when loading the configuration or creating the crash-folder root
\* fails at startup, the run ends with an error before the dashboard task
\* has been started and before any command has been launched.
C27_StartupFailsBeforeDashboard ==
    (orch.pc = "failed" /\ orch.i = 0)
    => /\ ~orch.tui_handle
       /\ \A id \in Ids : hist[id].attempts = 0 /\ alive[id] = 0

\* a period text is well formed when it is a decimal integer followed by
\* one unit letter
WellFormed(text) ==
    /\ Len(text) >= 2
    /\ text[Len(text)] \in {"s", "m", "h", "d", "w"}
    /\ LET prefix == SubSeq(text, 1, Len(text) - 1)
           digits == IF prefix[1] \in {"-", "+"} THEN Tail(prefix) ELSE prefix
       IN  digits # <<>> /\ \A i \in DOMAIN digits : digits[i] \in Digits

\* the value of a well-formed period text, in seconds
Seconds(text) ==
    LET prefix == SubSeq(text, 1, Len(text) - 1)
        negative == prefix[1] = "-"
        digits == IF prefix[1] \in {"-", "+"} THEN Tail(prefix) ELSE prefix
        n == from_digits(digits)
        unit == text[Len(text)]
        factor == CASE unit = "s" -> 1 [] unit = "m" -> 60 [] unit = "h" -> 3600
                    [] unit = "d" -> 86400 [] unit = "w" -> 604800
    IN  IF negative THEN 0 - n * factor ELSE n * factor

\* C30: once the period text has been parsed, a decimal integer n followed
\* by a unit letter has given exactly n seconds, minutes, hours, days or
\* weeks, and every other text, the empty one included, has been rejected
\* with a configuration error, never with a panic.
C30_PeriodParsedOrRejected ==
    orch.pc # "config"
    => IF WellFormed(json)
       THEN /\ orch.pc = "start"
            /\ commands[1].backup_strategy.period = Seconds(json)
       ELSE orch.pc = "failed"

\* the check that followed an earlier failure of command id ran its remedy:
\* at that failure more than times entries were inside the window
EarlierRemedy(id) ==
    \E j \in 1..(Len(task[id].crashes) - 1) :
       WindowCount(SubSeq(task[id].crashes, 1, j), task[id].crashes[j],
                   Strategy(id).period) > Strategy(id).times

\* C28: escalation is not a one-shot trip.  The ledger is never cleared (it
\* holds one entry for every failed attempt so far, also after a remedy) and
\* after a remedy has run, the check of every later failed attempt runs the
\* remedy again if and only if more than times entries are inside the
\* window at that failure: it runs it while they are, and runs none once
\* enough entries have aged out.
C28_EscalationFiresAgain ==
    \A id \in Ids :
        (Retrying(id) /\ HasRemedy(id) /\ hist[id].checks >= 1) =>
          LET crashes == task[id].crashes
              n == WindowCount(crashes, Last(crashes), Strategy(id).period)
          IN  /\ Len(crashes) = hist[id].checks
              /\ EarlierRemedy(id) => (hist[id].rounds >= 1 <=> n > Strategy(id).times)

\* times = 1: the second failure ran the remedy, the third failure, still
\* with more than one entry inside the window, has run it again
C28_Witness ==
    \E id \in Ids :
        /\ Retrying(id)
        /\ HasRemedy(id)
        /\ Strategy(id).times = 1
        /\ Len(task[id].crashes) = 3
        /\ EarlierRemedy(id)
        /\ hist[id].checks = 3
        /\ hist[id].rounds >= 1
        /\ task[id].pc = "call"
        /\ task[id].kind # "main"

\* C29: a command without a backup strategy never runs a remedy and is
\* never given up; under RunUntilSuccess every failed attempt (a non-zero
\* exit or a failed spawn) leaves the task about to launch the command
\* again, and the task ends only when an attempt has succeeded.
C29_NoStrategyRetriesForever ==
    \A id \in Ids :
        ~Strategy(id).some =>
          /\ hist[id].checks = 0 /\ hist[id].rounds = 0 /\ hist[id].giveups = 0
          /\ task[id].kind = "main"
          /\ UntilSuccess(id) =>
               /\ hist[id].ended \in {"nonzero", "spawn"} =>
                    /\ task[id].pc = "call"
                    /\ Len(task[id].crashes) = hist[id].attempts
               /\ task[id].pc = "done" =>
                    /\ task[id].result = "ok"
                    /\ hist[id].successes = 1
                    /\ hist[id].ended = "zero"

\* without a backup strategy the command has failed twice, was launched a
\* third time and has succeeded
C29_Witness ==
    \E id \in Ids :
        /\ UntilSuccess(id)
        /\ ~Strategy(id).some
        /\ hist[id].attempts = 3
        /\ Len(task[id].crashes) = 2
        /\ task[id].pc = "done"
        /\ hist[id].successes = 1

\* the lines of stderr.txt in the crash folder, none when there is no file
StderrTxt(fs, folder) == IF folder \in DOMAIN fs THEN fs[folder].stderr.lines ELSE <<>>

\* the crash folders that belong to the runs of command id
FoldersOf(fs, id) == {f \in DOMAIN fs : f[1] \in {Name(id, "main"), Name(id, "script")}}

\* C31: every stderr line read during a run_command call is appended, as
\* one line, at the end of stderr.txt in the crash folder of that call, in
\* the step that enqueues its NewStderrMessage and while the child is still
\* running; so the lines read in a call are the last lines of the file, in
\* the order read, while the call lasts and after it has ended with either
\* exit status, and no NewStderrMessage of a child's line waits in the
\* channel without its line in a file.
C31_StderrLineAppended ==
    /\ [][\A id \in Ids :
            hist'[id].errs # hist[id].errs =>
              /\ ChildRuns(id)
              /\ Folder(id) \in DOMAIN files'
              /\ files'[Folder(id)].stderr.exists
              /\ StderrTxt(files', Folder(id))
                    = Append(StderrTxt(files, Folder(id)), Last(hist'[id].err))
              /\ chan' = Append(chan, NewStderrMessage(id, Last(hist'[id].err).text))]_vars
    /\ [](\A id \in Ids :
            (task[id].pc = "wait" \/ Ended(id)) =>
              LastN(StderrTxt(files, hist[id].folder), Len(hist[id].err)) = hist[id].err)
    /\ [](\A i \in DOMAIN chan :
            (chan[i].type = "NewStderrMessage" /\ chan[i].text # GiveUpText) =>
              \E f \in FoldersOf(files, chan[i].id) :
                 \E k \in DOMAIN files[f].stderr.lines :
                    files[f].stderr.lines[k].text = chan[i].text)

\* a child printed two lines to its stderr and exited with status zero: both
\* are in stderr.txt, in the order read
C31_Witness ==
    \E id \in Ids :
        /\ hist[id].ended = "zero"
        /\ Len(hist[id].err) = 2
        /\ StderrTxt(files, hist[id].folder) = hist[id].err
        /\ hist[id].err[1].text # hist[id].err[2].text

\* the step ends a run_command call of the command itself with an error:
\* its child exited with a non-zero status or could not be spawned
FailedAttempt(id) ==
    /\ task[id].kind = "main"
    /\ \/ task[id].pc = "wait" /\ task'[id].pc # "wait" /\ exited[id] = "nonzero"
       \/ task[id].pc = "call" /\ task'[id].pc # "wait"
            /\ hist'[id].attempts = hist[id].attempts + 1

Touches(j) ==
    \/ task'[j] # task[j]
    \/ alive'[j] # alive[j]
    \/ exited'[j] # exited[j]
    \/ hist'[j] # hist[j]

\* C33: the escalation of a retried command depends on its own failed
\* attempts only.  A step of another command leaves its task (with the
\* ledger and the position of its check) and the record of its checks,
\* remedy rounds and give-ups unchanged; and as long as its own ledger has
\* no more than `times` entries no remedy and no give-up of it has fired,
\* however often the other commands have failed.
C33_EscalationIsPerCommand ==
    /\ [][\A id \in Ids :
            (Retrying(id) /\ \E j \in Ids \ {id} : Touches(j)) =>
               task'[id] = task[id] /\ hist'[id] = hist[id]]_vars
    /\ [](\A id \in Ids :
            (Retrying(id) /\ Strategy(id).some
               /\ Len(task[id].crashes) <= Strategy(id).times) =>
              /\ hist[id].rounds = 0
              /\ hist[id].giveups = 0
              /\ task[id].kind = "main")

\* two retried commands with the same strategy: one has failed twice and
\* its remedy has been run, the other has failed once in between and its
\* check has not fired
C33_Witness ==
    \E i \in Ids, j \in Ids :
        /\ i # j
        /\ Retrying(i) /\ Retrying(j)
        /\ Strategy(i).some /\ Strategy(j) = Strategy(i)
        /\ Len(task[i].crashes) = 2
        /\ task[i].kind \in {"script", "safe"}
        /\ hist[i].rounds = 1
        /\ Len(task[j].crashes) = 1
        /\ hist[j].checks = 1
        /\ hist[j].rounds = 0
        /\ task[j].kind = "main"

\* C34 (as claimed): a crash folder holds the artifacts of one run_command
\* call only: once a call has written to its folder (a line appended to
\* stderr.txt, or the dump of its buffer after a non-zero exit), the
\* stderr.txt of the folder holds the stderr lines of that call and nothing
\* else, and the stdout.txt, if there is one, is the dump of that call.
C34_FolderIsPerAttempt ==
    \A id \in Ids :
       LET f == hist[id].folder
           wrote == \/ hist[id].err # <<>>
                    \/ hist[id].ended = "nonzero" /\ hist[id].out # <<>>
       IN  ((task[id].pc = "wait" \/ Ended(id)) /\ wrote) =>
             /\ f \in DOMAIN files
             /\ files[f].stderr.lines = hist[id].err
             /\ files[f].stdout.exists =>
                  /\ hist[id].ended = "nonzero"
                  /\ files[f].stdout.lines = LastN(hist[id].out, commands[id].stdout_history)

\* C35 (as claimed): whenever the display loop has folded an event and
\* redraws, the fold has not panicked and the selected index is the index
\* of a tab, 0 <= index < number of tabs.
C35_IndexIsValid ==
    [][Folds(Head(chan)) =>
         /\ ~closed'
         /\ tui'.index \in 0..(Len(tui'.tabs) - 1)]_vars

\* the CommandStarted ("S") and CommandEnded ("E") events of command id in
\* the order they were sent: those the display loop has folded into the tab
\* of the command, then those still in the channel
Marks(id) ==
    LET folded == IF id \in DOMAIN tui.tabs
                  THEN SelectSeq(tui.tabs[id].content,
                                 LAMBDA e : e.severity = "System"
                                            /\ e.text \in {"Command Started", "Command ended"})
                  ELSE <<>>
        pending == SelectSeq(chan, LAMBDA e : e.id = id
                                              /\ e.type \in {"CommandStarted", "CommandEnded"})
    IN  [k \in DOMAIN folded |-> IF folded[k].text = "Command Started" THEN "S" ELSE "E"]
          \o [k \in DOMAIN pending |-> IF pending[k].type = "CommandStarted" THEN "S" ELSE "E"]

\* C36 (as claimed): for every id the CommandStarted and CommandEnded events
\* alternate in the channel, beginning with CommandStarted.
C36_StartedEndedAlternate ==
    \A id \in Ids :
       \A k \in DOMAIN Marks(id) : Marks(id)[k] = (IF k % 2 = 1 THEN "S" ELSE "E")

\* the events of command id in the order they were sent - CommandStarted
\* ("S"), CommandEnded ("E") and every other entry of its tab with its text
\* - first those folded into the tab, then those still in the channel
Entries(id) ==
    LET folded == IF id \in DOMAIN tui.tabs THEN tui.tabs[id].content ELSE <<>>
        pending == SelectSeq(chan, LAMBDA e : e.id = id /\ e.type \in MessageTypes)
    IN  [k \in DOMAIN folded |->
           IF folded[k].severity = "System" /\ folded[k].text = "Command Started" THEN "S"
           ELSE IF folded[k].severity = "System" /\ folded[k].text = "Command ended" THEN "E"
           ELSE folded[k].text]
        \o [k \in DOMAIN pending |->
              CASE pending[k].type = "CommandStarted" -> "S"
                [] pending[k].type = "CommandEnded" -> "E"
                [] OTHER -> pending[k].text]

\* how many of the first k entries are CommandStarted
Starts(entries, k) == Cardinality({i \in 1..k : entries[i] = "S"})

\* the lines the child of attempt number a may print
LinesOf(a) ==
    {Line(stream, [attempts |-> a], "main", n) : stream \in {"out", "err"}, n \in 1..(MaxLines + 1)}

C39_SameEscalation ==
    \A id \in Ids :
       (Retrying(id) /\ hist[id].successes = 0) =>
          \A res \in {"ok", "err"} :
             LET u == run_until_success(task[id], Strategy(id), res, now, id)
                 k == run_keep_alive(task[id], Strategy(id), res, now, id)
             IN  IF task[id].kind = "main" /\ res = "ok"
                 THEN /\ u.task = Done(task[id], "ok")
                      /\ k.task = Call(task[id], "main")
                      /\ u.msgs = <<>> /\ k.msgs = <<>>
                 ELSE u = k

\* a task of either mode is in the remedy of its second check, with two
\* entries on its ledger and no Success so far
C39_Witness ==
    /\ \E id \in Ids :
          /\ Retrying(id)
          /\ hist[id].successes = 0
          /\ Len(task[id].crashes) = 2
          /\ hist[id].checks = 2
          /\ task[id].kind = "safe"
          /\ task[id].pc = "wait"
          /\ run_keep_alive(task[id], Strategy(id), "ok", now, id).ev = "round"

\* C40 (as claimed): execute_commands returns only after it has joined every
\* task it spawned. When no command is KeepAlive, a run that has returned,
\* with success or with an error, has every spawned task finished; and while
\* the task of a spawned KeepAlive command has not ended, the run has not
\* returned.
C40_ReturnsOnlyAfterJoin ==
    /\ ((\A id \in Ids : ~KeepAlive(id)) /\ orch.pc \in {"joined", "failed"})
         => \A j \in orch.futures : task[j].pc = "done"
    /\ (\E j \in orch.futures : KeepAlive(j) /\ task[j].pc # "done")
         => orch.pc \notin {"joined", "failed"}

====
